---- MODULE Spec2Model ----
(***************************************************************************)
(* Model of the interval timer library of include/timer.h.                 *)
(*                                                                         *)
(* The library keeps its whole state in file-scope statics:                *)
(*   timer_begins_by_idx, timer_ends_by_idx  pointers to calloc'ed arrays  *)
(*   timer_current_by_idx                    samples recorded per timer   *)
(*   timer_names, timer_name_cur             names and the naming cursor   *)
(* The heap, the monotonic clock and stdout are modelled next to them.     *)
(*                                                                         *)
(* Every C function is an operator from a memory record to the SET of      *)
(* memory records the call can end in.  A call has several outcomes when   *)
(* the clock may or may not have advanced between two reads, and when the  *)
(* call runs into undefined behaviour (a store or load through a null,     *)
(* dangling or out-of-bounds pointer, a double free): then the build may   *)
(* crash, or carry on with the access having hit memory that is not part   *)
(* of the library's state.  Both outcomes are kept.                        *)
(*                                                                         *)
(* Doubles are modelled exactly, as fractions num/den in units of one      *)
(* clock step (half a second).                                             *)
(***************************************************************************)
EXTENDS Integers, Sequences, FiniteSets, TLC

\* ---------------------------------------------------------------- constants
NUM_TIMERS == 6
MAX_NAME_SIZE == 16
NSEC_PER_SEC == 1000000000

\* ------------------------------------------------------------------- bounds
\* largest `iterations` a caller passes to timer_init
MaxIter == 2
\* the clock stops advancing once it has made MaxTicks steps
MaxTicks == 2
\* number of timer_init calls in one run
MaxInits == 2
\* timer_set_name is not called again once timer_name_cur reached MaxCur
MaxCur == 7
\* timer_end is not called again on a timer that is MaxOver past its array
MaxOver == 1
\* number of calls of the library in one run
MaxCalls == 3

\* one clock step, in nanoseconds
ClockStep == NSEC_PER_SEC \div 2
StepsPerSec == NSEC_PER_SEC \div ClockStep

TimerIdx == 0..(NUM_TIMERS - 1)

\* ------------------------------------------------------------------ strings
\* A C string is the sequence of its characters (without the terminator).
CLCK == <<"C", "L", "C", "K">>
WORK == <<"W", "O", "R", "K">>
LongName == [i \in 1..(MAX_NAME_SIZE + 1) |-> "x"]
Labels == {WORK, LongName}

Min2(a, b) == IF a < b THEN a ELSE b

\* strncpy(dst, src, n) into a zeroed dst of n+1 bytes or more: the first n
\* characters of src
Truncate(s, n) == SubSeq(s, 1, Min2(Len(s), n))

Digit(d) == <<"0", "1", "2", "3", "4", "5", "6", "7", "8", "9">>[d + 1]

RECURSIVE ToDecimal(_)
\* the characters printf's %d writes for i >= 0
ToDecimal(i) ==
  IF i < 10 THEN <<Digit(i)>> ELSE ToDecimal(i \div 10) \o <<Digit(i % 10)>>

\* snprintf(name, MAX_NAME_SIZE - 1, "%d", i) then
\* strncpy(timer_names[i], name, MAX_NAME_SIZE)
DefaultName(i) == Truncate(Truncate(ToDecimal(i), MAX_NAME_SIZE - 2), MAX_NAME_SIZE)

\* -------------------------------------------------------------------- values
\* struct timespec
TimeSpec(s, ns) == [tv_sec |-> s, tv_nsec |-> ns]
ZeroTime == TimeSpec(0, 0)

\* a double, as the exact fraction num/den of a clock step; kind tells a
\* number from a NaN, from an indeterminate value and from "nothing returned"
Dbl(n) == [kind |-> "double", num |-> n, den |-> 1]
IntRet(n) == [kind |-> "int", num |-> n, den |-> 1]
NaN == [kind |-> "nan", num |-> 0, den |-> 0]
Garbage == [kind |-> "garbage", num |-> 0, den |-> 0]
NoRet == [kind |-> "none", num |-> 0, den |-> 0]

\* seconds + nanos / 1000000000, in clock steps
timespec_to_double(t) == t.tv_sec * StepsPerSec + (t.tv_nsec \div ClockStep)

\* ------------------------------------------------------------------ variables
VARIABLES
  timer_begins_by_idx,   \* [TimerIdx -> pointer]; 0 is NULL, p > 0 is heap[p]
  timer_ends_by_idx,
  timer_current_by_idx,  \* [TimerIdx -> Int]
  timer_names,           \* [TimerIdx -> string]
  timer_name_cur,
  heap,                  \* sequence of blocks [size, live, data]
  now,                   \* last value of CLOCK_MONOTONIC
  out,                   \* lines the last call wrote to stdout
  events,                \* what went wrong inside the last call
  crashed,               \* the process has been killed
  ret,                   \* value the last call returned
  lastOp,                \* the last call and its arguments
  capacity,              \* `iterations` of the most recent timer_init
  phase,                 \* "Uninitialized", "Initialized" or "TornDown"
  clk,                   \* timer_init's local clk: the timer it calibrated
  nameCalls,             \* timer_set_name calls so far
  endCalls,              \* [TimerIdx -> timer_end calls since timer_init]
  inits,                 \* timer_init calls so far
  pending,               \* [TimerIdx -> timer_begin calls not yet closed]
  calls                  \* calls of the library so far

vars == <<timer_begins_by_idx, timer_ends_by_idx, timer_current_by_idx,
          timer_names, timer_name_cur, heap, now, out, events, crashed, ret,
          lastOp, capacity, phase, clk, nameCalls, endCalls, inits, pending,
          calls>>

\* the memory a C function works on
Mem == [begins |-> timer_begins_by_idx, ends |-> timer_ends_by_idx,
        cur |-> timer_current_by_idx, names |-> timer_names,
        name_cur |-> timer_name_cur, heap |-> heap, now |-> now,
        out |-> <<>>, events |-> {}, crashed |-> FALSE, ret |-> NoRet,
        clk |-> clk]

\* the kinds of event that are undefined behaviour
UBKinds == {"null", "dangling", "oob_store", "oob_load", "bad_index",
            "names_oob", "double_free"}

\* f after every outcome in S that is still running
Bind(S, f(_)) == UNION {IF m.crashed THEN {m} ELSE f(m) : m \in S}

\* undefined behaviour of kind k: the process is killed, or runs on
UB(m, k) ==
  {[m EXCEPT !.events = @ \cup {k}],
   [m EXCEPT !.events = @ \cup {k}, !.crashed = TRUE]}

\* --------------------------------------------------------------------- heap
\* calloc(n, sizeof(struct timespec)): a fresh block of n zeroed cells
Block(n) == [size |-> n, live |-> TRUE, data |-> [k \in 1..n |-> ZeroTime]]

\* what an access to cell i of the array p points to runs into
Access(m, p, i) ==
  IF p = 0 THEN "null"
  ELSE IF ~m.heap[p].live THEN "dangling"
  ELSE IF i < 0 \/ i >= m.heap[p].size THEN "oob"
  ELSE "ok"

\* free(p)
free(m, p) ==
  IF p = 0 THEN {m}
  ELSE IF m.heap[p].live
    THEN {[m EXCEPT !.heap[p] = [size |-> @.size, live |-> FALSE, data |-> <<>>]]}
    ELSE UB(m, "double_free")

\* -------------------------------------------------------------------- clock
Advance(t) ==
  IF t.tv_nsec + ClockStep >= NSEC_PER_SEC
    THEN TimeSpec(t.tv_sec + 1, t.tv_nsec + ClockStep - NSEC_PER_SEC)
    ELSE TimeSpec(t.tv_sec, t.tv_nsec + ClockStep)

\* CLOCK_MONOTONIC never goes back; it may stand still between two reads
Ticks(t) ==
  {t} \cup (IF timespec_to_double(t) < MaxTicks THEN {Advance(t)} ELSE {})

\* the clock is read: clock_gettime(CLOCK_MONOTONIC, &t) on a local t
clock_read(m) == {[m EXCEPT !.now = t] : t \in Ticks(m.now)}

clock_gettime_cell0(m, arr, tidx) ==
  Bind(clock_read(m), LAMBDA m1 :
    IF tidx \notin TimerIdx THEN UB(m1, "bad_index")
    ELSE LET p == arr[tidx]
             a == Access(m1, p, 0)
         IN  IF a = "ok" THEN {[m1 EXCEPT !.heap[p].data[1] = m1.now]}
             ELSE IF a = "oob" THEN UB(m1, "oob_store")
             ELSE UB(m1, a))

\* clock_gettime(CLOCK_MONOTONIC, arr[tidx] + timer_current_by_idx[tidx])
clock_gettime(m, arr, tidx) ==
  Bind(clock_read(m), LAMBDA m1 :
    IF tidx \notin TimerIdx THEN UB(m1, "bad_index")
    ELSE LET p == arr[tidx]
             i == m1.cur[tidx]
             a == Access(m1, p, i)
         IN  IF a = "ok" THEN {[m1 EXCEPT !.heap[p].data[i + 1] = m1.now]}
             ELSE IF a = "oob" THEN UB(m1, "oob_store")
             ELSE UB(m1, a))

\* the value a call returns once it has run into undefined behaviour
RetOf(m, v) == IF m.events \cap UBKinds = {} THEN v ELSE Garbage

\* ------------------------------------------------------- timer_begin / _end
timer_begin_counts(m, tidx) ==
  Bind(clock_gettime(m, m.begins, tidx), LAMBDA m1 :
    {[m1 EXCEPT !.cur = IF tidx \in TimerIdx
                          THEN [@ EXCEPT ![tidx] = @ + 1] ELSE @,
                !.ret = RetOf(m1, IntRet(0))]})

timer_begin(m, tidx) ==
  Bind(clock_gettime(m, m.begins, tidx), LAMBDA m1 :
    {[m1 EXCEPT !.ret = RetOf(m1, IntRet(0))]})

timer_end_nocount(m, tidx) ==
  Bind(clock_gettime(m, m.ends, tidx), LAMBDA m1 :
    {[m1 EXCEPT !.ret = IntRet(0)]})

timer_end(m, tidx) ==
  Bind(clock_gettime(m, m.ends, tidx), LAMBDA m1 :
    {[m1 EXCEPT !.cur = IF tidx \in TimerIdx
                          THEN [@ EXCEPT ![tidx] = @ + 1] ELSE @,
                !.ret = IntRet(0)]})

\* ------------------------------------------------------------ timer_set_name
timer_set_name_preinc(m, name) ==
  IF m.name_cur + 1 \in TimerIdx
    THEN {[m EXCEPT !.names[m.name_cur + 1] = Truncate(name, MAX_NAME_SIZE - 1),
                    !.ret = IntRet(m.name_cur + 1),
                    !.name_cur = @ + 1]}
    ELSE Bind(UB(m, "names_oob"), LAMBDA m1 :
           {[m1 EXCEPT !.ret = IntRet(m.name_cur + 1), !.name_cur = @ + 1]})

timer_set_name(m, name) ==
  IF m.name_cur \in TimerIdx
    THEN {[m EXCEPT !.names[m.name_cur] = Truncate(name, MAX_NAME_SIZE - 1),
                    !.ret = IntRet(m.name_cur),
                    !.name_cur = @ + 1]}
    ELSE Bind(UB(m, "names_oob"), LAMBDA m1 :
           {[m1 EXCEPT !.ret = IntRet(m.name_cur), !.name_cur = @ + 1]})

\* ---------------------------------------------------------------- timer_init
\* the pointer p is overwritten: nothing points to its block any more, so no
\* cell of it is ever loaded or stored again; only its size and whether it
\* was freed are kept
Unreachable(h, p) ==
  IF p = 0 THEN h ELSE [h EXCEPT ![p].data = <<>>]

RECURSIVE InitLoop(_, _, _)
\* for (int i = 0; i < NUM_TIMERS; i++): allocate, reset, default name
InitLoop(m, i, iterations) ==
  IF i >= NUM_TIMERS THEN m
  ELSE InitLoop(
         [m EXCEPT !.heap = Unreachable(Unreachable(@, m.begins[i]), m.ends[i])
                             \o <<Block(iterations), Block(iterations)>>,
                   !.begins[i] = Len(m.heap) + 1,
                   !.ends[i] = Len(m.heap) + 2,
                   !.cur[i] = 0,
                   !.names[i] = DefaultName(i)],
         i + 1, iterations)

RECURSIVE CalibLoop(_, _, _, _)
\* for (int i = 0; i < iterations; i++) { begin(clk); clock_gettime; end(clk) }
CalibLoop(S, c, iterations, i) ==
  IF i >= iterations THEN S
  ELSE CalibLoop(
         Bind(Bind(Bind(S, LAMBDA m : timer_begin(m, c)),
                   clock_read),
              LAMBDA m : timer_end(m, c)),
         c, iterations, i + 1)

timer_init_rewinds(m, iterations) ==
  Bind(Bind(timer_set_name([InitLoop(m, 0, iterations) EXCEPT !.name_cur = 0],
                           CLCK),
            LAMBDA m1 :
         CalibLoop({[m1 EXCEPT !.clk = m1.ret.num]}, m1.ret.num, iterations, 0)),
       LAMBDA m2 : {[m2 EXCEPT !.ret = IntRet(0)]})

timer_init(m, iterations) ==
  Bind(Bind(timer_set_name(InitLoop(m, 0, iterations), CLCK), LAMBDA m1 :
         CalibLoop({[m1 EXCEPT !.clk = m1.ret.num]}, m1.ret.num, iterations, 0)),
       LAMBDA m2 : {[m2 EXCEPT !.ret = IntRet(0)]})

\* ----------------------------------------------------------------- getters
Max2(a, b) == IF a > b THEN a ELSE b

\* what the loads of a getter on timer tidx run into: every getter loads cell
\* 0 of both arrays before its loop, and cells 0 .. current-1 inside it
Loads(m, tidx) ==
  IF tidx \notin TimerIdx THEN "bad_index"
  ELSE LET last == Max2(m.cur[tidx] - 1, 0)
           b == Access(m, m.begins[tidx], last)
           e == Access(m, m.ends[tidx], last)
           a == IF b # "ok" THEN b ELSE e
       IN  IF a = "oob" THEN "oob_load" ELSE a

Duration_reversed(m, tidx, i) ==
  timespec_to_double(m.heap[m.begins[tidx]].data[i + 1])
    - timespec_to_double(m.heap[m.ends[tidx]].data[i + 1])

\* end - begin of sample i, both through timespec_to_double
Duration(m, tidx, i) ==
  timespec_to_double(m.heap[m.ends[tidx]].data[i + 1])
    - timespec_to_double(m.heap[m.begins[tidx]].data[i + 1])

RECURSIVE TotalLoop(_, _, _, _)
TotalLoop(m, tidx, i, total) ==
  IF i < m.cur[tidx]
    THEN TotalLoop(m, tidx, i + 1, total + Duration(m, tidx, i))
    ELSE total

RECURSIVE MaxLoop(_, _, _, _)
MaxLoop(m, tidx, i, max) ==
  IF i < m.cur[tidx]
    THEN LET t == Duration(m, tidx, i)
         IN  MaxLoop(m, tidx, i + 1, IF t > max THEN t ELSE max)
    ELSE max

RECURSIVE MinLoop(_, _, _, _)
MinLoop(m, tidx, i, min) ==
  IF i < m.cur[tidx]
    THEN LET t == Duration(m, tidx, i)
         IN  MinLoop(m, tidx, i + 1, IF t < min THEN t ELSE min)
    ELSE min

\* a getter one of whose loads is undefined: what it returns, if it
\* returns, is indeterminate
Indeterminate(m, k) ==
  Bind(UB(m, k), LAMBDA m1 : {[m1 EXCEPT !.ret = Garbage]})

timer_get_total_from1(m, tidx) ==
  IF Loads(m, tidx) = "ok"
    THEN {[m EXCEPT !.ret = Dbl(TotalLoop(m, tidx, 1, 0))]}
    ELSE Indeterminate(m, Loads(m, tidx))

timer_get_total(m, tidx) ==
  IF Loads(m, tidx) = "ok"
    THEN {[m EXCEPT !.ret = Dbl(TotalLoop(m, tidx, 0, 0))]}
    ELSE Indeterminate(m, Loads(m, tidx))

timer_get_max(m, tidx) ==
  IF Loads(m, tidx) = "ok"
    THEN {[m EXCEPT !.ret = Dbl(MaxLoop(m, tidx, 0, Duration(m, tidx, 0)))]}
    ELSE Indeterminate(m, Loads(m, tidx))

timer_get_min_first(m, tidx) ==
  IF Loads(m, tidx) = "ok"
    THEN {[m EXCEPT !.ret = Dbl(Duration(m, tidx, 0))]}
    ELSE Indeterminate(m, Loads(m, tidx))

timer_get_min(m, tidx) ==
  IF Loads(m, tidx) = "ok"
    THEN {[m EXCEPT !.ret = Dbl(MinLoop(m, tidx, 0, Duration(m, tidx, 0)))]}
    ELSE Indeterminate(m, Loads(m, tidx))

\* total / n for the int n: 0.0 / 0 is a NaN (the total of no samples is 0.0)
Divide(m, n) ==
  IF m.ret.kind # "double" THEN m
  ELSE IF n = 0
    THEN [m EXCEPT !.ret = NaN, !.events = @ \cup {"div_by_zero"}]
    ELSE [m EXCEPT !.ret = [kind |-> "double", num |-> m.ret.num, den |-> n]]

timer_get_avg(m, tidx) ==
  Bind(timer_get_total(m, tidx), LAMBDA m1 :
    {IF tidx \in TimerIdx THEN Divide(m1, m1.cur[tidx]) ELSE m1})

\* ---------------------------------------------------------- timer_print_tsv
HeaderLine == [kind |-> "header", tidx |-> 0, name |-> <<>>,
               min |-> NoRet, max |-> NoRet, avg |-> NoRet, ttl |-> NoRet]

\* the arguments of the row's printf; tidx is the timer the row is about
RowLine(tidx, name, min, max, avg, ttl) ==
  [kind |-> "row", tidx |-> tidx, name |-> name,
   min |-> min, max |-> max, avg |-> avg, ttl |-> ttl]

timer_print_tsv(m, tidx, header) ==
  LET name == IF tidx \in TimerIdx THEN m.names[tidx] ELSE <<>>
  IN
  Bind(timer_get_min(m, tidx), LAMBDA a :
  Bind(timer_get_max(a, tidx), LAMBDA b :
  Bind(timer_get_avg(b, tidx), LAMBDA c :
  Bind(timer_get_total(c, tidx), LAMBDA d :
    {[d EXCEPT !.out = @ \o (IF header THEN <<HeaderLine>> ELSE <<>>)
                         \o <<RowLine(tidx, name, a.ret, b.ret, c.ret, d.ret)>>,
               !.ret = IntRet(0)]}))))

\* ------------------------------------------------------------- timer_destroy
\* if (0 < timer_current_by_idx[i]) timer_print_tsv(i, false);
DestroyPrint_all(m, i) == timer_print_tsv(m, i, FALSE)

DestroyPrint(m, i) ==
  IF 0 < m.cur[i] THEN timer_print_tsv(m, i, FALSE) ELSE {m}

RECURSIVE DestroyLoop(_, _)
\* for (int i = 1; i < NUM_TIMERS; i++) { print if used; free; free }
DestroyLoop(S, i) ==
  IF i >= NUM_TIMERS THEN S
  ELSE DestroyLoop(
         Bind(Bind(Bind(S, LAMBDA m : DestroyPrint(m, i)),
                   LAMBDA m : free(m, m.begins[i])),
              LAMBDA m : free(m, m.ends[i])),
         i + 1)

timer_destroy(m) ==
  Bind(DestroyLoop(
         Bind(Bind(timer_print_tsv(m, 0, TRUE),
                   LAMBDA m1 : free(m1, m1.begins[0])),
              LAMBDA m1 : free(m1, m1.ends[0])),
         1),
       LAMBDA m2 : {[m2 EXCEPT !.ret = IntRet(0)]})

\* ------------------------------------------------------------ state machine
\* the timer the example program samples
PRINTF_TIMER == 1

\* timer indices callers pass: the calibration timer, the first free timer
\* and one past the last timer
TIdxInputs == {0, 1, NUM_TIMERS}
\* timers callers ask statistics and rows of
StatInputs == {0, 1}
\* `iterations` callers pass in the runs of SpecNames
NameIters == {0, 1}

Op(name, tidx, label, n) == [op |-> name, tidx |-> tidx, label |-> label, n |-> n]

\* what is known of the timer_begin calls on one timer: n is the number of
\* them since the timer's last timer_end (0, 1, or 2 for two and more), at is
\* the clock value the latest of them read, prev is the n the timer's last
\* timer_end found
NoBegin == [n |-> 0, at |-> ZeroTime, prev |-> 0]

Init ==
  /\ timer_begins_by_idx = [i \in TimerIdx |-> 0]
  /\ timer_ends_by_idx = [i \in TimerIdx |-> 0]
  /\ timer_current_by_idx = [i \in TimerIdx |-> 0]
  /\ timer_names = [i \in TimerIdx |-> <<>>]
  /\ timer_name_cur = 0
  /\ heap = <<>>
  /\ now = ZeroTime
  /\ out = <<>>
  /\ events = {}
  /\ crashed = FALSE
  /\ ret = NoRet
  /\ lastOp = Op("start", 0, <<>>, 0)
  /\ capacity = 0
  /\ phase = "Uninitialized"
  /\ clk = 0
  /\ nameCalls = 0
  /\ endCalls = [i \in TimerIdx |-> 0]
  /\ inits = 0
  /\ pending = [i \in TimerIdx |-> NoBegin]
  /\ calls = 0

\* the statics, the heap, the clock and the call's results after a call; a
\* killed process has no memory and no output left, the variables then keep
\* what they held when the call began
Commit(m, op) ==
  /\ timer_begins_by_idx' = IF m.crashed THEN timer_begins_by_idx ELSE m.begins
  /\ timer_ends_by_idx' = IF m.crashed THEN timer_ends_by_idx ELSE m.ends
  /\ timer_current_by_idx' = IF m.crashed THEN timer_current_by_idx ELSE m.cur
  /\ timer_names' = IF m.crashed THEN timer_names ELSE m.names
  /\ timer_name_cur' = IF m.crashed THEN timer_name_cur ELSE m.name_cur
  /\ heap' = IF m.crashed THEN heap ELSE m.heap
  /\ now' = IF m.crashed THEN now ELSE m.now
  /\ out' = IF m.crashed THEN <<>> ELSE m.out
  /\ events' = m.events
  /\ crashed' = m.crashed
  /\ ret' = IF m.crashed THEN NoRet ELSE m.ret
  /\ clk' = IF m.crashed THEN clk ELSE m.clk
  /\ lastOp' = op
  /\ calls' = IF calls < MaxCalls THEN calls + 1 ELSE calls

\* ------------------------------------------------- the calls of the library
CallInit(iterations) ==
  /\ ~crashed
  /\ inits < MaxInits
  /\ \E m \in timer_init(Mem, iterations) :
       /\ Commit(m, Op("init", 0, <<>>, iterations))
       /\ endCalls' = [i \in TimerIdx |-> IF i = m.clk THEN iterations ELSE 0]
       /\ pending' = [i \in TimerIdx |->
                        IF i = m.clk /\ iterations > 0
                          THEN [NoBegin EXCEPT !.prev = 1] ELSE NoBegin]
  /\ capacity' = iterations
  /\ phase' = "Initialized"
  /\ nameCalls' = nameCalls + 1
  /\ inits' = inits + 1

CallDestroy ==
  /\ ~crashed
  /\ \E m \in timer_destroy(Mem) : Commit(m, Op("destroy", 0, <<>>, 0))
  /\ phase' = "TornDown"
  /\ UNCHANGED <<capacity, nameCalls, endCalls, inits, pending>>

CallSetName(label) ==
  /\ ~crashed
  /\ timer_name_cur < MaxCur
  /\ \E m \in timer_set_name(Mem, label) : Commit(m, Op("set_name", 0, label, 0))
  /\ nameCalls' = nameCalls + 1
  /\ UNCHANGED <<capacity, phase, endCalls, inits, pending>>

CallBegin(tidx) ==
  /\ ~crashed
  /\ \E m \in timer_begin(Mem, tidx) :
       /\ Commit(m, Op("begin", tidx, <<>>, 0))
       /\ pending' = IF tidx \in TimerIdx /\ ~m.crashed
                       THEN [pending EXCEPT ![tidx] =
                               [n |-> Min2(@.n + 1, 2), at |-> m.now,
                                prev |-> @.prev]]
                       ELSE pending
  /\ UNCHANGED <<capacity, phase, nameCalls, endCalls, inits>>

CallEnd(tidx) ==
  /\ ~crashed
  /\ tidx \in TimerIdx => timer_current_by_idx[tidx] < capacity + MaxOver
  /\ \E m \in timer_end(Mem, tidx) :
       /\ Commit(m, Op("end", tidx, <<>>, 0))
       /\ pending' = IF tidx \in TimerIdx /\ ~m.crashed
                       THEN [pending EXCEPT ![tidx] =
                               [NoBegin EXCEPT !.prev = pending[tidx].n]]
                       ELSE pending
  /\ endCalls' = IF tidx \in TimerIdx
                   THEN [endCalls EXCEPT ![tidx] = @ + 1] ELSE endCalls
  /\ UNCHANGED <<capacity, phase, nameCalls, inits>>

CallGetAvg(tidx) ==
  /\ ~crashed
  /\ \E m \in timer_get_avg(Mem, tidx) : Commit(m, Op("get_avg", tidx, <<>>, 0))
  /\ UNCHANGED <<capacity, phase, nameCalls, endCalls, inits, pending>>

CallGetMax(tidx) ==
  /\ ~crashed
  /\ \E m \in timer_get_max(Mem, tidx) : Commit(m, Op("get_max", tidx, <<>>, 0))
  /\ UNCHANGED <<capacity, phase, nameCalls, endCalls, inits, pending>>

CallGetMin(tidx) ==
  /\ ~crashed
  /\ \E m \in timer_get_min(Mem, tidx) : Commit(m, Op("get_min", tidx, <<>>, 0))
  /\ UNCHANGED <<capacity, phase, nameCalls, endCalls, inits, pending>>

CallGetTotal(tidx) ==
  /\ ~crashed
  /\ \E m \in timer_get_total(Mem, tidx) : Commit(m, Op("get_total", tidx, <<>>, 0))
  /\ UNCHANGED <<capacity, phase, nameCalls, endCalls, inits, pending>>

CallPrintTsv(tidx, header) ==
  /\ ~crashed
  /\ \E m \in timer_print_tsv(Mem, tidx, header) :
       Commit(m, Op("print_tsv", tidx, <<>>, IF header THEN 1 ELSE 0))
  /\ UNCHANGED <<capacity, phase, nameCalls, endCalls, inits, pending>>

\* ------------------------------------------ Spec: short runs of every call
Budget == calls < MaxCalls

TimerInit(iterations) == Budget /\ CallInit(iterations)
TimerDestroy == Budget /\ CallDestroy
TimerSetName(label) == Budget /\ CallSetName(label)
TimerBegin(tidx) == Budget /\ CallBegin(tidx)
TimerEnd(tidx) == Budget /\ CallEnd(tidx)
TimerGetAvg(tidx) == Budget /\ CallGetAvg(tidx)
TimerGetMax(tidx) == Budget /\ CallGetMax(tidx)
TimerGetMin(tidx) == Budget /\ CallGetMin(tidx)
TimerGetTotal(tidx) == Budget /\ CallGetTotal(tidx)
TimerPrintTsv(tidx, header) == Budget /\ CallPrintTsv(tidx, header)

Next ==
  \/ \E iterations \in 0..MaxIter : TimerInit(iterations)
  \/ TimerDestroy
  \/ \E label \in Labels : TimerSetName(label)
  \/ \E tidx \in TIdxInputs : TimerBegin(tidx)
  \/ \E tidx \in TIdxInputs : TimerEnd(tidx)
  \/ \E tidx \in StatInputs : TimerGetAvg(tidx)
  \/ \E tidx \in StatInputs : TimerGetMax(tidx)
  \/ \E tidx \in StatInputs : TimerGetMin(tidx)
  \/ \E tidx \in StatInputs : TimerGetTotal(tidx)
  \/ \E tidx \in StatInputs : TimerPrintTsv(tidx, tidx = 0)

Spec == Init /\ [][Next]_vars

\* --------------- SpecNames: runs of timer_init, timer_set_name, timer_destroy
\* of any length (timer_name_cur and the number of timer_init calls bound them)
NamesInit(iterations) == CallInit(iterations)
NamesSetName(label) == CallSetName(label)
NamesDestroy == CallDestroy

NextNames ==
  \/ \E iterations \in NameIters : NamesInit(iterations)
  \/ \E label \in Labels : NamesSetName(label)
  \/ NamesDestroy

SpecNames == Init /\ [][NextNames]_vars

\* ------- SpecSamples: one timer_init, then timer_begin, timer_end and
\* timer_get_total on the first free timer, in runs of any length
SamplesInit(iterations) == inits = 0 /\ CallInit(iterations)
SamplesBegin(tidx) == inits > 0 /\ CallBegin(tidx)
SamplesEnd(tidx) == inits > 0 /\ CallEnd(tidx)
SamplesGetTotal(tidx) == inits > 0 /\ CallGetTotal(tidx)

NextSamples ==
  \/ SamplesInit(MaxIter)
  \/ SamplesBegin(PRINTF_TIMER)
  \/ SamplesEnd(PRINTF_TIMER)
  \/ SamplesGetTotal(PRINTF_TIMER)

SpecSamples == Init /\ [][NextSamples]_vars

\* ------------------------------------------------------------------ claims
Getters == {"get_total", "get_avg", "get_min", "get_max"}

\* the last call ran into no undefined behaviour and the process is alive
Defined == ~crashed /\ events \cap UBKinds = {}

\* C1: once timer_init has run, no timer has recorded more samples than the
\* capacity passed to the most recent timer_init (stated for the capacities
\* of 1 and more).
C1_CountWithinCapacity ==
  (inits > 0 /\ capacity > 0)
    => \A i \in TimerIdx : timer_current_by_idx[i] <= capacity

\* C2: timer_begin and timer_end on a timer that is full (its count equals
\* the capacity) report an error, store nothing past the end of the timer's
\* array and leave the count as it is (stated for the capacities of 1 and
\* more).
C2_FullIsRejected ==
  [][(/\ lastOp'.op \in {"begin", "end"}
      /\ lastOp'.tidx \in TimerIdx
      /\ phase = "Initialized"
      /\ capacity > 0
      /\ timer_current_by_idx[lastOp'.tidx] = capacity
      /\ ~crashed')
     => (/\ ret'.kind = "error"
         /\ "oob_store" \notin events'
         /\ timer_current_by_idx' = timer_current_by_idx)]_vars

\* C3: right after any timer_init(c), timer 0 holds c samples and every
\* other timer holds none.
C3_InitCalibratesTimer0 ==
  (lastOp.op = "init" /\ ~crashed)
    => /\ timer_current_by_idx[0] = lastOp.n
       /\ \A s \in 1..(NUM_TIMERS - 1) : timer_current_by_idx[s] = 0

\* C4: timer_begin leaves every count as it is, timer_end(s) adds exactly one
\* to the count of s and to no other; so while a timer has seen no more
\* timer_end calls since timer_init than the capacity, its count is the
\* number of those calls.
C4_Inv ==
  (phase = "Initialized" /\ ~crashed)
    => \A s \in TimerIdx :
         endCalls[s] <= capacity => timer_current_by_idx[s] = endCalls[s]

C4_Step ==
  /\ (lastOp'.op = "begin" /\ ~crashed')
       => timer_current_by_idx' = timer_current_by_idx
  /\ (lastOp'.op = "end" /\ lastOp'.tidx \in TimerIdx /\ ~crashed')
       => \A s \in TimerIdx :
            timer_current_by_idx'[s] =
              timer_current_by_idx[s] + (IF s = lastOp'.tidx THEN 1 ELSE 0)

C4_CountIsEndCalls == [](C4_Inv) /\ [][C4_Step]_vars

\* a timer other than the calibrated one went through timer_begin, then
\* timer_end, and holds one sample
C4_Witness ==
  /\ lastOp = Op("end", 1, <<>>, 0)
  /\ Defined
  /\ phase = "Initialized"
  /\ clk # 1
  /\ timer_current_by_idx[1] = 1
  /\ endCalls[1] = 1
  /\ heap[timer_begins_by_idx[1]].data[1] # ZeroTime

\* the first 15 characters of label, and all of it when it is shorter
C5_Stored(name, label) ==
  /\ Len(name) = Min2(Len(label), 15)
  /\ \A j \in 1..Len(name) : name[j] = label[j]

\* C5: for k <= NUM_TIMERS, the k-th timer_set_name call since the program
\* started (the call inside timer_init counted) returns k - 1 and stores its
\* label as the name of timer k - 1, changing no other name.
C5_Inv ==
  (~crashed /\ nameCalls <= NUM_TIMERS)
    => /\ lastOp.op = "set_name"
            => /\ ret = IntRet(nameCalls - 1)
               /\ C5_Stored(timer_names[nameCalls - 1], lastOp.label)
       /\ lastOp.op = "init"
            => /\ clk = nameCalls - 1
               /\ C5_Stored(timer_names[nameCalls - 1], CLCK)

C5_Step ==
  (lastOp'.op = "set_name" /\ ~crashed' /\ nameCalls' <= NUM_TIMERS)
    => \A i \in TimerIdx : i # nameCalls' - 1 => timer_names'[i] = timer_names[i]

C5_SequentialIds == [](C5_Inv) /\ [][C5_Step]_vars

\* the first call a caller makes after timer_init returns 1, and the long
\* label is stored cut to 15 characters
C5_Witness ==
  /\ lastOp = Op("set_name", 0, LongName, 0)
  /\ ~crashed
  /\ inits = 1
  /\ nameCalls = 2
  /\ ret = IntRet(1)
  /\ Len(timer_names[1]) = 15
  /\ timer_names[0] = CLCK

\* C6: once NUM_TIMERS ids are handed out, timer_set_name hands out no id
\* >= NUM_TIMERS, writes no name past the name table and leaves the cursor.
C6_ExhaustionIsRejected ==
  /\ "names_oob" \notin events
  /\ timer_name_cur <= NUM_TIMERS
  /\ (lastOp.op = "set_name" /\ ~crashed) => ret.num < NUM_TIMERS

\* C7: a getter called on a timer that holds no sample reports NoSamples and
\* divides nothing by zero (stated for the capacities of 1 and more).
C7_EmptyIsRejected ==
  (/\ lastOp.op \in Getters
   /\ phase = "Initialized"
   /\ capacity > 0
   /\ timer_current_by_idx[lastOp.tidx] = 0
   /\ ~crashed)
  => (ret.kind = "error" /\ "div_by_zero" \notin events)

\* C8: timer_begin and timer_end called before timer_init or after
\* timer_destroy report a lifecycle error and access no sample array.
C8_LifecycleIsChecked ==
  (/\ lastOp.op \in {"begin", "end"}
   /\ lastOp.tidx \in TimerIdx
   /\ phase # "Initialized")
  => (/\ events \cap {"null", "dangling", "oob_store"} = {}
      /\ ~crashed => ret.kind = "error")

\* the lines timer_destroy has to write: the header, the row of timer 0, then
\* the rows of the timers 1 .. NUM_TIMERS-1 that hold a sample, in order
C9_Expected ==
  <<<<"header", 0>>, <<"row", 0>>>>
    \o [j \in 1..Len(SelectSeq([i \in 1..(NUM_TIMERS - 1) |-> i],
                               LAMBDA i : timer_current_by_idx[i] > 0)) |->
          <<"row", SelectSeq([i \in 1..(NUM_TIMERS - 1) |-> i],
                             LAMBDA i : timer_current_by_idx[i] > 0)[j]>>]

C10_Ns(t) == t.tv_sec * NSEC_PER_SEC + t.tv_nsec

RECURSIVE C10_Sum(_, _)
\* the sum, in clock steps, of end - begin over the samples whose index is in K
C10_Sum(tidx, K) ==
  IF K = {} THEN 0
  ELSE LET k == CHOOSE x \in K : TRUE
       IN  (C10_Ns(heap[timer_ends_by_idx[tidx]].data[k + 1])
              - C10_Ns(heap[timer_begins_by_idx[tidx]].data[k + 1])) \div ClockStep
           + C10_Sum(tidx, K \ {k})

\* C10: timer_get_total(s) is the sum of end - begin over exactly the samples
\* 0 .. count-1 of s, and 0.0 when the count is 0; cells at or after the
\* count do not contribute.
C10_TotalIsSum ==
  (lastOp.op = "get_total" /\ Defined)
    => /\ ret = Dbl(C10_Sum(lastOp.tidx,
                            0..(timer_current_by_idx[lastOp.tidx] - 1)))
       /\ timer_current_by_idx[lastOp.tidx] = 0 => ret = Dbl(0)

\* the total of two samples that took time
C10_Witness ==
  /\ lastOp.op = "get_total"
  /\ Defined
  /\ timer_current_by_idx[lastOp.tidx] = 2
  /\ ret.kind = "double"
  /\ ret.num > 0

\* end - begin of sample k of timer tidx, in clock steps
C11_Dur(tidx, k) ==
  (C10_Ns(heap[timer_ends_by_idx[tidx]].data[k + 1])
     - C10_Ns(heap[timer_begins_by_idx[tidx]].data[k + 1])) \div ClockStep

\* the durations of the samples 0 .. count-1 of timer tidx
C11_Durs(tidx) ==
  {C11_Dur(tidx, k) : k \in 0..(timer_current_by_idx[tidx] - 1)}

C11_Least(tidx) == CHOOSE d \in C11_Durs(tidx) : \A e \in C11_Durs(tidx) : d <= e
C11_Greatest(tidx) == CHOOSE d \in C11_Durs(tidx) : \A e \in C11_Durs(tidx) : d >= e

\* the four statistics of one row: avg is ttl over the count n, and
\* min <= avg <= max
C11_RowOk(r, n) ==
  /\ r.avg.kind = "double" /\ r.ttl.kind = "double"
  /\ r.min.kind = "double" /\ r.max.kind = "double"
  /\ r.avg.num = r.ttl.num /\ r.avg.den = n /\ r.ttl.den = 1
  /\ r.min.num * r.avg.den <= r.avg.num * r.min.den
  /\ r.avg.num * r.max.den <= r.max.num * r.avg.den

\* C11: whenever the count of timer s is above 0, timer_get_avg(s) is
\* timer_get_total(s) divided by the count, timer_get_min(s) and
\* timer_get_max(s) are the least and the greatest duration among the samples
\* 0 .. count-1, and min <= avg <= max: for each getter called on its own, and
\* for the four values timer_print_tsv computes for one row.
C11_AvgWithinMinMax ==
  /\ (lastOp.op \in Getters /\ Defined /\ timer_current_by_idx[lastOp.tidx] > 0)
       => LET s == lastOp.tidx
              n == timer_current_by_idx[s]
          IN  /\ lastOp.op = "get_avg"
                   => /\ ret = [kind |-> "double", num |-> C10_Sum(s, 0..(n - 1)),
                                den |-> n]
                      /\ C11_Least(s) * n <= ret.num
                      /\ ret.num <= C11_Greatest(s) * n
              /\ lastOp.op = "get_min" => ret = Dbl(C11_Least(s))
              /\ lastOp.op = "get_max" => ret = Dbl(C11_Greatest(s))
  /\ (lastOp.op \in {"print_tsv", "destroy"} /\ Defined)
       => \A j \in 1..Len(out) :
            (out[j].kind = "row" /\ timer_current_by_idx[out[j].tidx] > 0)
              => C11_RowOk(out[j], timer_current_by_idx[out[j].tidx])
  /\ (lastOp.op = "print_tsv" /\ Defined /\ timer_current_by_idx[lastOp.tidx] > 0)
       => /\ out[Len(out)].min = Dbl(C11_Least(lastOp.tidx))
          /\ out[Len(out)].max = Dbl(C11_Greatest(lastOp.tidx))

\* a row of two samples of different durations: the average lies strictly
\* between the minimum and the maximum
C11_Witness ==
  /\ lastOp.op = "print_tsv"
  /\ Defined
  /\ timer_current_by_idx[lastOp.tidx] = 2
  /\ out[Len(out)].min.num < out[Len(out)].max.num
  /\ out[Len(out)].avg.den = 2
  /\ C11_Dur(lastOp.tidx, 1) < C11_Dur(lastOp.tidx, 0)

C13_InvalidSlotIsRejected ==
  [][(/\ lastOp'.op \in {"begin", "end"}
      /\ lastOp'.tidx \notin TimerIdx
      /\ phase = "Initialized"
      /\ ~crashed')
     => (/\ ret'.kind = "error"
         /\ "bad_index" \notin events'
         /\ UNCHANGED <<timer_begins_by_idx, timer_ends_by_idx,
                        timer_current_by_idx, timer_names, timer_name_cur,
                        heap>>)]_vars

\* C14: timer_init(0) fails (it returns something other than 0), and timer_destroy never writes a row for timer 0
\* with a count of 0 after it.
C14_ZeroCapacityIsRejected ==
  /\ (lastOp.op = "init" /\ lastOp.n = 0 /\ ~crashed)
       => ret # IntRet(0)
  /\ (lastOp.op = "destroy" /\ ~crashed /\ inits > 0)
       => \A j \in 1..Len(out) :
            ~(out[j].kind = "row" /\ out[j].tidx = 0
                /\ timer_current_by_idx[0] = 0)

\* C15: no array is left allocated with no pointer of the library to it: a
\* timer_init that follows another never takes the place of arrays that
\* have not been freed (stated for the arrays of 1 element and more).
C15_NoStorageIsLost ==
  ~crashed
    => \A p \in 1..Len(heap) :
         (heap[p].live /\ heap[p].size > 0)
           => \E i \in TimerIdx :
                timer_begins_by_idx[i] = p \/ timer_ends_by_idx[i] = p

\* C16: timer_destroy frees each of the 2 * NUM_TIMERS arrays of the
\* timer_init before it, and no array is ever freed twice (stated for the
\* capacities of 1 and more).
C16_EachArrayFreedOnce ==
  /\ capacity > 0 => "double_free" \notin events
  /\ (lastOp.op = "destroy" /\ Defined /\ inits = 1)
       => (/\ Len(heap) = 2 * NUM_TIMERS
           /\ \A p \in 1..Len(heap) : ~heap[p].live)

\* the calls that run timer_set_name: timer_set_name itself and timer_init
C17_Naming == {"set_name", "init"}

C17_Inv == ~crashed => timer_name_cur = nameCalls

C17_Step ==
  ~crashed'
    => /\ timer_name_cur' =
            timer_name_cur + (IF lastOp'.op \in C17_Naming THEN 1 ELSE 0)
       /\ (lastOp'.op = "set_name" /\ Defined')
            => ret' = IntRet(timer_name_cur)

\* C17: timer_name_cur starts at 0 and goes up by exactly 1 in each
\* timer_set_name call, the one inside timer_init included; no other call
\* changes it, neither the reset loop of timer_init nor timer_destroy, so it
\* counts the timer_set_name calls, never goes down, and the index a
\* timer_set_name returns was never returned before.
C17_CursorOnlyAdvances == [](C17_Inv) /\ [][C17_Step]_vars

\* a second timer_init after a timer_set_name: the cursor went on from 2 to 3
C17_Witness ==
  /\ lastOp.op = "init"
  /\ inits = 2
  /\ Defined
  /\ timer_name_cur = 3
  /\ clk = 2

\* C18: right after timer_init, timer 0 is named "CLCK" and every timer i of
\* 1 .. NUM_TIMERS-1 is named by the decimal digits of i.
C18_DefaultNames ==
  (lastOp.op = "init" /\ Defined)
    => /\ timer_names[0] = CLCK
       /\ \A i \in 1..(NUM_TIMERS - 1) : timer_names[i] = DefaultName(i)

\* a timer_begin or timer_end step on a timer in range whose arrays are
\* allocated and not full
C19_ValidStep ==
  /\ lastOp'.op \in {"begin", "end"}
  /\ lastOp'.tidx \in TimerIdx
  /\ phase = "Initialized"
  /\ ~crashed
  /\ timer_current_by_idx[lastOp'.tidx] < capacity

C19_Step ==
  C19_ValidStep
    => LET s == lastOp'.tidx
           k == timer_current_by_idx[s]
           p == IF lastOp'.op = "begin"
                  THEN timer_begins_by_idx[s] ELSE timer_ends_by_idx[s]
       IN  /\ Defined'
           /\ ret' = IntRet(0)
           /\ heap' = [heap EXCEPT ![p].data[k + 1] = now']
           /\ timer_current_by_idx' =
                IF lastOp'.op = "begin" THEN timer_current_by_idx
                ELSE [timer_current_by_idx EXCEPT ![s] = k + 1]
           /\ UNCHANGED <<timer_begins_by_idx, timer_ends_by_idx, timer_names,
                          timer_name_cur>>

\* C19: timer_begin(s) and timer_end(s) on a timer s in range that is not
\* full change timer s only: timer_begin stores the clock into
\* begins[s][count[s]] and nothing else, timer_end stores the clock into
\* ends[s][count[s]] and adds 1 to count[s]; every other cell of every array,
\* the counts of the other timers, all names and the cursor stay as they were.
C19_OnlyOwnSlotChanges == [][C19_Step]_vars

\* a timer_begin on timer 1 stored a clock value into cell 1, next to a
\* recorded sample, while timer 0 holds samples
C19_Witness ==
  /\ lastOp.op = "begin"
  /\ lastOp.tidx = 1
  /\ Defined
  /\ phase = "Initialized"
  /\ timer_current_by_idx[1] = 1
  /\ capacity = 2
  /\ heap[timer_begins_by_idx[1]].data[2] # ZeroTime
  /\ timer_current_by_idx[0] > 0

\* the recorded samples of every timer: the cells below the count
C20_Recorded(h, s) ==
  [j \in 1..Min2(timer_current_by_idx[s], capacity) |->
     <<h[timer_begins_by_idx[s]].data[j], h[timer_ends_by_idx[s]].data[j]>>]

\* while timer_begin calls on timer s are waiting for their timer_end, the
\* cell at the count holds the clock of the latest of them
C20_Inv ==
  (phase = "Initialized" /\ ~crashed)
    => \A s \in TimerIdx :
         (pending[s].n >= 1 /\ timer_current_by_idx[s] < capacity)
           => heap[timer_begins_by_idx[s]].data[timer_current_by_idx[s] + 1]
                = pending[s].at

C20_Step ==
  (/\ lastOp'.op \in {"begin", "end"}
   /\ lastOp'.tidx \in TimerIdx
   /\ phase = "Initialized"
   /\ ~crashed /\ ~crashed')
    => LET s == lastOp'.tidx
           k == timer_current_by_idx[s]
       IN  /\ \A t \in TimerIdx : C20_Recorded(heap', t) = C20_Recorded(heap, t)
           /\ (lastOp'.op = "begin" /\ k < capacity)
                => /\ timer_current_by_idx' = timer_current_by_idx
                   /\ heap'[timer_begins_by_idx[s]].data[k + 1] = now'
                   /\ pending'[s].at = now'
           /\ (lastOp'.op = "end" /\ k < capacity /\ pending[s].n >= 1)
                => /\ timer_current_by_idx'[s] = k + 1
                   /\ heap'[timer_begins_by_idx[s]].data[k + 1] = pending[s].at
                   /\ heap'[timer_ends_by_idx[s]].data[k + 1] = now'

\* C20: timer_begin calls on timer s with no timer_end between them all store
\* into the same cell, begins[s][count[s]], and leave the count as it is, so
\* the sample the next timer_end records runs from the latest of them to that
\* timer_end; no timer_begin or timer_end changes a sample below the count.
C20_LatestBeginCounts == [](C20_Inv) /\ [][C20_Step]_vars

\* a sample recorded after two timer_begin calls and more, which took time
\* and began after the clock had moved
C20_Witness ==
  /\ lastOp.op = "end"
  /\ lastOp.tidx = PRINTF_TIMER
  /\ Defined
  /\ pending[PRINTF_TIMER].prev = 2
  /\ timer_current_by_idx[PRINTF_TIMER] = 1
  /\ heap[timer_begins_by_idx[PRINTF_TIMER]].data[1] # ZeroTime
  /\ C11_Dur(PRINTF_TIMER, 0) > 0

====
